---- MODULE Spec2Model ----
(***************************************************************************)
(* Model of the dataset upload tool (src/tools.py): the scanned file tree, *)
(* partition_tree_by_fnmatches, split_into_chunks and the driver `upload`  *)
(* with its upload pass over the archive nodes.                            *)
(*                                                                         *)
(* A tree is the nutree arena seen as a value:                             *)
(*   kids : node id (0 = nutree's system root) -> ordered child ids        *)
(*   data : node id -> PathData (is_dir, is_zip, has_zip_descendants, size)*)
(* PathData.path never changes once a node is created, so it is a function *)
(* of the node id (PathOf): ids 1..Len(Skel) are scanned paths, the id     *)
(* ZipId(n, i) is the archive node created for group i of node n.          *)
(* Strings are sequences of one-character strings.                         *)
(***************************************************************************)
EXTENDS Integers, Sequences, FiniteSets, TLC

VARIABLES
    pc,               \* where `upload` stands
    disk,             \* the directory to upload: [present, st_size]
    partitions_dict,  \* the partitions file, a sequence of entries
    chunk_size,       \* --chunk-size
    min_zip_depth,    \* --min-zip-depth
    file_tree,        \* the scanned tree
    subtrees,         \* name -> tree, a sequence of [name, tree]
    parted,           \* subtrees as partition_tree_by_fnmatches returned it
    found,            \* the splits dict of each split_into_chunks call so far
    ci,               \* the next entry of subtrees to split
    err,              \* the exception that ended the run, "" if none
    again,            \* what split_into_chunks returns for a chunked tree
    overwrite,        \* --overwrite
    remote,           \* s3.bucket and s3.prefix are both given
    bucket,           \* the keys of the objects in the S3 bucket
    scratch,          \* the zip file in the temporary directory, if any
    progress,         \* per partition visited, the advance of its task
    ui,               \* the entry of subtrees being visited
    zi,               \* the next archive node of that tree
    passes,           \* how many times the upload pass was started
    failures,         \* how many calls have failed so far
    log               \* what happened to each archive: [pass, key, event]

\* the state of the upload pass
uploadvars == <<overwrite, remote, bucket, scratch, progress, ui, zi, passes,
                failures, log>>

vars == <<pc, disk, partitions_dict, chunk_size, min_zip_depth, file_tree,
          subtrees, parted, found, ci, err, again, uploadvars>>

(***************************************************************************)
(* Bounds of the model.                                                    *)
(***************************************************************************)
\* most nodes below the scan root in a scanned tree
MaxNodes == 4
\* min_zip_depth is drawn from 0..MaxDepthArg
MaxDepthArg == 2
\* most starts of the upload pass (the run and its re-runs)
MaxPasses == 2
\* most failing calls (S3, disk) in all passes together
MaxFailures == 1

(***************************************************************************)
(* Generic helpers.                                                        *)
(***************************************************************************)
Range(s) == {s[i] : i \in DOMAIN s}

RECURSIVE SumSizes(_, _)
\* sum(c.data.size for c in <sequence of nodes>)
SumSizes(data, s) ==
    IF s = <<>> THEN 0 ELSE data[Head(s)].size + SumSizes(data, Tail(s))

\* the subsequence of s whose members satisfy membership in keep, order kept
RECURSIVE SelectIn(_, _)
SelectIn(s, keep) ==
    IF s = <<>> THEN <<>>
    ELSE IF Head(s) \in keep THEN <<Head(s)>> \o SelectIn(Tail(s), keep)
    ELSE SelectIn(Tail(s), keep)

(***************************************************************************)
(* Characters and strings.                                                 *)
(***************************************************************************)
\* the characters used, in code point order
Alphabet == <<"*", ".", "/", "0", "1", "2", "3", "4", "5", "6", "7", "8", "9",
              "?", "_", "a", "b", "c", "d", "e", "f", "i", "p", "r", "z">>

Ord(ch) == CHOOSE i \in DOMAIN Alphabet : Alphabet[i] = ch

Digits == {"0", "1", "2", "3", "4", "5", "6", "7", "8", "9"}

DigitVal(ch) == Ord(ch) - Ord("0")

\* str(i) for a group index
RECURSIVE IntStr(_)
IntStr(i) ==
    IF i < 10 THEN <<Alphabet[Ord("0") + i]>>
    ELSE IntStr(i \div 10) \o <<Alphabet[Ord("0") + (i % 10)]>>

\* s < t for Python strings (code point order, a proper prefix is smaller)
RECURSIVE StrLess(_, _)
StrLess(s, t) ==
    IF t = <<>> THEN FALSE
    ELSE IF s = <<>> THEN TRUE
    ELSE IF Head(s) # Head(t) THEN Ord(Head(s)) < Ord(Head(t))
    ELSE StrLess(Tail(s), Tail(t))

(***************************************************************************)
(* The scanned directory: every path the walk can meet.  A scanned tree    *)
(* holds the scan root and any parent-closed subset of the others.         *)
(***************************************************************************)
Skel == <<
    [parent |-> 0, name |-> <<"r">>,           is_dir |-> TRUE],
    [parent |-> 1, name |-> <<"d">>,           is_dir |-> TRUE],
    [parent |-> 2, name |-> <<"e">>,           is_dir |-> TRUE],
    [parent |-> 3, name |-> <<"f", "2">>,      is_dir |-> FALSE],
    [parent |-> 2, name |-> <<"f", "1", "0">>, is_dir |-> FALSE],
    [parent |-> 2, name |-> <<"f", "2">>,      is_dir |-> FALSE],
    [parent |-> 1, name |-> <<"a">>,           is_dir |-> FALSE],
    [parent |-> 1, name |-> <<"b">>,           is_dir |-> FALSE],
    [parent |-> 1, name |-> <<"c">>,           is_dir |-> FALSE] >>

SkelIds == DOMAIN Skel

\* st_size of a scanned file
SizeSet == {50, 80, 120}

\* the values of --chunk-size
ChunkSizes == {100, 200}

\* a size not yet computed (PathData.size = None)
NoSize == 0 - 1

(***************************************************************************)
(* Paths (pathlib).                                                        *)
(***************************************************************************)
\* the id of the archive node made for group i of node n: the ids above
\* those of Skel, one for every (node, index) with index < 10
ZipId(n, i) == 10 * n + i

ZipSrc(z) == z \div 10

ZipIdx(z) == z % 10

\* Path.stem: the name without its last suffix
Stem(name) ==
    LET dots == {i \in DOMAIN name : name[i] = "."}
        last == IF dots = {} THEN 0 ELSE CHOOSE i \in dots : \A j \in dots : j <= i
    IN  IF 1 < last /\ last < Len(name) THEN SubSeq(name, 1, last - 1) ELSE name

\* path.with_name(f"{path.stem}_{i}.zip").name, for a path of the given name
ZipName(name, i) == Stem(name) \o <<"_">> \o IntStr(i) \o <<".", "z", "i", "p">>

\* str(path.parent) without the trailing separator; the scan root lies in "/"
RECURSIVE DirOf(_)
DirOf(n) ==
    IF n \notin SkelIds THEN DirOf(ZipSrc(n))
    ELSE IF Skel[n].parent = 0 THEN <<>>
    ELSE DirOf(Skel[n].parent) \o <<"/">> \o Skel[Skel[n].parent].name

RECURSIVE NameOf(_)
\* path.name
NameOf(n) ==
    IF n \in SkelIds THEN Skel[n].name ELSE ZipName(NameOf(ZipSrc(n)), ZipIdx(n))

\* str(node.data.path)
PathOf(n) == DirOf(n) \o <<"/">> \o NameOf(n)

\* path.is_file(): only scanned files exist as files on disk
IsFile(n) == n \in SkelIds /\ ~Skel[n].is_dir

(***************************************************************************)
(* natsort: the key of a string is its alternation of text and numbers.    *)
(***************************************************************************)
RECURSIVE PrefixLen(_, _)
\* length of the longest prefix of s made of digits (isd) or of non-digits
PrefixLen(s, isd) ==
    IF s = <<>> \/ ((Head(s) \in Digits) # isd) THEN 0
    ELSE 1 + PrefixLen(Tail(s), isd)

RECURSIVE ToInt(_, _)
ToInt(s, acc) ==
    IF s = <<>> THEN acc ELSE ToInt(Tail(s), 10 * acc + DigitVal(Head(s)))

RECURSIVE natsort_key(_)
\* ("f", 10, "x") is <<[str "f", num 10], [str "x", num NoSize]>>: a text
\* chunk and the number after it, num < 0 when the string ends there
natsort_key(s) ==
    IF s = <<>> THEN <<>>
    ELSE LET k == PrefixLen(s, FALSE)
             rest == SubSeq(s, k + 1, Len(s))
             m == PrefixLen(rest, TRUE)
         IN  <<[str |-> SubSeq(s, 1, k),
                num |-> IF m = 0 THEN 0 - 1 ELSE ToInt(SubSeq(rest, 1, m), 0)]>>
             \o natsort_key(SubSeq(rest, m + 1, Len(rest)))

RECURSIVE ChunksLess(_, _)
\* tuple comparison of two natsort keys
ChunksLess(a, b) ==
    IF b = <<>> THEN FALSE
    ELSE IF a = <<>> THEN TRUE
    ELSE IF Head(a).str # Head(b).str THEN StrLess(Head(a).str, Head(b).str)
    ELSE IF Head(a).num # Head(b).num THEN Head(a).num < Head(b).num
    ELSE ChunksLess(Tail(a), Tail(b))

\* the natsort key of str(node.data.path)
KeyOf(n) == natsort_key(PathOf(n))

\* key=lambda n: (n.data.path.is_file(), str(n.data.path)), compared as natsort does
SortLess(a, b) ==
    IF IsFile(a) # IsFile(b) THEN IsFile(b)
    ELSE ChunksLess(KeyOf(a), KeyOf(b))

RECURSIVE InsertSorted(_, _)
\* sorted() is stable: x goes after every member that is not greater
InsertSorted(s, x) ==
    IF s = <<>> THEN <<x>>
    ELSE IF SortLess(x, Head(s)) THEN <<x>> \o s
    ELSE <<Head(s)>> \o InsertSorted(Tail(s), x)

RECURSIVE natsorted(_)
natsorted(s) ==
    IF s = <<>> THEN <<>>
    ELSE InsertSorted(natsorted(SubSeq(s, 1, Len(s) - 1)), s[Len(s)])

(***************************************************************************)
(* fnmatch: literals, "?" and "*" ("*" also matches "/").                  *)
(***************************************************************************)
RECURSIVE fnmatch(_, _)
fnmatch(s, pat) ==
    IF pat = <<>> THEN s = <<>>
    ELSE IF Head(pat) = "*"
         THEN fnmatch(s, Tail(pat)) \/ (s # <<>> /\ fnmatch(Tail(s), pat))
    ELSE IF s = <<>> THEN FALSE
    ELSE (Head(pat) = "?" \/ Head(pat) = Head(s)) /\ fnmatch(Tail(s), Tail(pat))

(***************************************************************************)
(* nutree: the tree arena.                                                 *)
(***************************************************************************)
Nodes(t) == DOMAIN t.data

\* node.is_leaf()
IsLeaf(t, n) == t.kids[n] = <<>>

\* tree.find_all(match=lambda n: n.is_leaf()), as a set
Leaves(t) == {n \in Nodes(t) : IsLeaf(t, n)}

\* node.up(): the parent, nutree's system root (0) for a top-level node
Up(t, n) == CHOOSE p \in DOMAIN t.kids : n \in Range(t.kids[p])

RECURSIVE Depth(_, _)
\* node.depth(): 1 for a top-level node
Depth(t, n) == IF Up(t, n) = 0 THEN 1 ELSE 1 + Depth(t, Up(t, n))

RECURSIVE Ancestors(_, _)
\* the nodes above n, the system root excluded
Ancestors(t, n) ==
    IF Up(t, n) = 0 THEN {} ELSE {Up(t, n)} \cup Ancestors(t, Up(t, n))

\* tree.first_child(), 0 for an empty tree
FirstChild(t) == IF t.kids[0] = <<>> THEN 0 ELSE t.kids[0][1]

EmptyTree == [kids |-> (0 :> <<>>), data |-> <<>>]

\* parent.add(data): a new last child
AddChild(t, parent, n, d) ==
    [kids |-> [p \in DOMAIN t.kids \cup {n} |->
                 IF p = n THEN <<>>
                 ELSE IF p = parent THEN Append(t.kids[p], n)
                 ELSE t.kids[p]],
     data |-> [m \in Nodes(t) \cup {n} |-> IF m = n THEN d ELSE t.data[m]]]

\* a move that attaches c to its new parent twice
MoveTo_twice(t, c, new_parent) ==
    [t EXCEPT !.kids = [p \in DOMAIN t.kids |->
        IF p = new_parent
        THEN SelectIn(t.kids[p], Range(t.kids[p]) \ {c}) \o <<c, c>>
        ELSE SelectIn(t.kids[p], Range(t.kids[p]) \ {c})]]

\* c.move_to(new_parent): c, with its branch, becomes the last child
MoveTo(t, c, new_parent) ==
    [t EXCEPT !.kids = [p \in DOMAIN t.kids |->
        IF p = new_parent THEN Append(SelectIn(t.kids[p], Range(t.kids[p]) \ {c}), c)
        ELSE SelectIn(t.kids[p], Range(t.kids[p]) \ {c})]]

RECURSIVE Branch(_, _)
\* n and everything below it
Branch(t, n) ==
    {n} \cup UNION {Branch(t, t.kids[n][i]) : i \in DOMAIN t.kids[n]}

\* node.remove(): the node and its branch leave the tree
Remove(t, n) ==
    LET gone == Branch(t, n)
    IN  [kids |-> [p \in DOMAIN t.kids \ gone |->
                     SelectIn(t.kids[p], Range(t.kids[p]) \ gone)],
         data |-> [m \in Nodes(t) \ gone |-> t.data[m]]]

(***************************************************************************)
(* populate_filesize, directory_tree, deepcopy.                            *)
(***************************************************************************)
\* lines 246-247: the size of node n from the sizes of its children
sum_children(t, n, refresh) ==
    IF (t.data[n].is_dir /\ refresh) \/ t.data[n].size = NoSize
    THEN [t EXCEPT !.data[n].size = SumSizes(t.data, t.kids[n])]
    ELSE t

RECURSIVE populate_filesize(_, _, _)
\* children first; then a directory (on refresh) or an unsized node gets the
\* sum of its children's sizes
populate_filesize(t, n, refresh) ==
    LET RECURSIVE Below(_, _)
        Below(u, i) ==
            IF i > Len(t.kids[n]) THEN u
            ELSE Below(populate_filesize(u, t.kids[n][i], refresh), i + 1)
    IN  sum_children(Below(t, 1), n, refresh)

\* sizes left as they were in the source tree
populate_tree_stale(t, refresh) == t

\* populate_filesize on a Tree: its first top-level node, if any
populate_tree(t, refresh) ==
    IF FirstChild(t) = 0 THEN t ELSE populate_filesize(t, FirstChild(t), refresh)

RECURSIVE SortedIds(_)
\* the walk's order of the entries of one directory: as listed in Skel
SortedIds(S) ==
    IF S = {} THEN <<>>
    ELSE LET m == CHOOSE x \in S : \A y \in S : x <= y
         IN  <<m>> \o SortedIds(S \ {m})

\* the tree of the paths `present` (scan root included) with file sizes st_size
directory_tree(present, st_size) ==
    LET t == [kids |-> [p \in present \cup {0} |->
                          SortedIds({n \in present : Skel[n].parent = p})],
              data |-> [n \in present |->
                          [is_dir |-> Skel[n].is_dir,
                           is_zip |-> FALSE,
                           has_zip_descendants |-> FALSE,
                           size |-> IF Skel[n].is_dir THEN NoSize ELSE st_size[n]]]]
    IN  populate_filesize(t, 1, FALSE)

\* PathData.serialize_mapper then deserialize_mapper: the five fields survive
deepcopy(t) ==
    [kids |-> t.kids,
     data |-> [n \in Nodes(t) |->
                 [is_dir |-> t.data[n].is_dir,
                  is_zip |-> t.data[n].is_zip,
                  has_zip_descendants |-> t.data[n].has_zip_descendants,
                  size |-> t.data[n].size]]]

\* a filter that keeps every directory that has children, matching or not
filtered_keeps_dirs(t, leafs) ==
    LET keep == {n \in Nodes(t) : n \in leafs \/ ~IsLeaf(t, n)}
    IN  [kids |-> [p \in keep \cup {0} |-> SelectIn(t.kids[p], keep)],
         data |-> [n \in keep |-> t.data[n]]]

\* a filter that keeps every node of the tree once anything matches
filtered_keeps_all(t, leafs) ==
    IF leafs = {} THEN [kids |-> (0 :> <<>>), data |-> <<>>] ELSE t

\* tree.filtered(lambda n: n.data.path in leafs): the matching nodes and the
\* nodes with a matching node below them
filtered(t, leafs) ==
    LET keep == {n \in Nodes(t) : Branch(t, n) \cap leafs # {}}
    IN  [kids |-> [p \in keep \cup {0} |-> SelectIn(t.kids[p], keep)],
         data |-> [n \in keep |-> t.data[n]]]

(***************************************************************************)
(* partition_tree_by_fnmatches.                                            *)
(* patterns: a sequence of [name, pattern] (a dict in insertion order).    *)
(***************************************************************************)
\* the pattern None, a value that is no string
None == <<"None">>

Names(patterns) == {patterns[i].name : i \in DOMAIN patterns}

\* patterns[name] = pattern on a dict: replace in place, or append
DictSet(patterns, name, pattern) ==
    IF name \in Names(patterns)
    THEN [i \in DOMAIN patterns |->
            IF patterns[i].name = name THEN [name |-> name, pattern |-> pattern]
            ELSE patterns[i]]
    ELSE Append(patterns, [name |-> name, pattern |-> pattern])

\* the leaves of t whose path matches pattern_expr
MatchingLeafs(t, pattern_expr) ==
    {n \in Leaves(t) : fnmatch(PathOf(n), pattern_expr)}

\* the leaves matched by no pattern that is truthy (not None, not "")
UnmatchedLeafs(t, patterns) ==
    {n \in Leaves(t) :
        ~\E i \in DOMAIN patterns :
            /\ patterns[i].pattern # None
            /\ patterns[i].pattern # <<>>
            /\ fnmatch(PathOf(n), patterns[i].pattern)}

\* [ok, error, subtrees]: subtrees is a sequence of [name, tree]
partition_tree_by_fnmatches(t, patterns0, default_groupname0) ==
    LET exprs == {patterns0[i].pattern : i \in DOMAIN patterns0}
        patterns == IF None \notin exprs
                    THEN DictSet(patterns0, default_groupname0, None)
                    ELSE patterns0
        default_groupname ==
            IF None \notin exprs THEN default_groupname0
            ELSE patterns0[CHOOSE i \in DOMAIN patterns0 :
                               patterns0[i].pattern = None].name
        named == SelectSeq(patterns, LAMBDA e : e.name # default_groupname)
        matched_leafs ==
            [i \in 1..Len(named) |->
                [name |-> named[i].name,
                 leafs |-> MatchingLeafs(t, named[i].pattern)]]
            \o <<[name |-> default_groupname, leafs |-> UnmatchedLeafs(t, patterns)]>>
        disjoint == \A i, j \in DOMAIN matched_leafs :
                        i < j => matched_leafs[i].leafs \cap matched_leafs[j].leafs = {}
        all_matched_leafs == UNION {matched_leafs[i].leafs : i \in DOMAIN matched_leafs}
        filtered_trees ==
            [i \in DOMAIN matched_leafs |->
                [name |-> matched_leafs[i].name,
                 tree |-> filtered(t, matched_leafs[i].leafs)]]
        \* if st.count
        kept == SelectSeq(filtered_trees, LAMBDA e : Nodes(e.tree) # {})
    IN  IF Cardinality(exprs) # Len(patterns0)
        THEN [ok |-> FALSE, error |-> "RuntimeError", subtrees |-> <<>>]
        ELSE IF ~disjoint \/ all_matched_leafs # Leaves(t)
        THEN [ok |-> FALSE, error |-> "AssertionError", subtrees |-> <<>>]
        ELSE [ok |-> TRUE, error |-> "",
              subtrees |-> [i \in 1..Len(kept) |->
                  [name |-> kept[i].name,
                   tree |-> populate_tree(deepcopy(kept[i].tree), TRUE)]]]

(***************************************************************************)
(* split_into_chunks.                                                      *)
(***************************************************************************)
RECURSIVE accumulate(_, _, _)
\* itertools.accumulate(c.data.size for c in children), from the sum acc
accumulate(data, children, acc) ==
    IF children = <<>> THEN <<>>
    ELSE <<acc + data[Head(children)].size>>
         \o accumulate(data, Tail(children), acc + data[Head(children)].size)

\* a boundary test that rounds up instead of down
Boundary_ceil(x, y, C) == ((x + C - 1) \div C) # ((y + C - 1) \div C)

\* the boundary test of the grouping: lambda x, y: x // chunk_size != y // chunk_size
Boundary(x, y, C) == (x \div C) # (y \div C)

RECURSIVE split_when(_, _, _, _)
\* more_itertools.split_when: the lengths of the runs of cum, a new run
\* starting at i when the test holds of cum[i-1], cum[i]; len is the length
\* of the run being built
split_when(cum, i, len, C) ==
    IF cum = <<>> THEN <<>>
    ELSE IF i > Len(cum) THEN <<len>>
    ELSE IF Boundary(cum[i - 1], cum[i], C)
         THEN <<len>> \o split_when(cum, i + 1, 1, C)
    ELSE split_when(cum, i + 1, len + 1, C)

RECURSIVE take_groups(_, _, _, _)
\* for i, group_size in enumerate(groups_lengths): take(group_size, children_iter)
take_groups(node, children, lens, i) ==
    IF lens = <<>> THEN <<>>
    ELSE <<[node |-> node, i |-> i, group |-> SubSeq(children, 1, Head(lens))]>>
         \o take_groups(node, SubSeq(children, Head(lens) + 1, Len(children)),
                        Tail(lens), i + 1)

\* the eligible children left in the order the tree lists them
unsorted_children(t, node) ==
    SelectSeq(t.kids[node], LAMBDA c : ~t.data[c].has_zip_descendants)

\* the children of node that take part in the grouping, in grouping order
sorted_children(t, node) ==
    natsorted(SelectSeq(t.kids[node], LAMBDA c : ~t.data[c].has_zip_descendants))

\* a candidate test without the depth clause
\* every node is split
is_split_candidate_always(t, node, C, D) == TRUE

is_split_candidate_by_size(t, node, C, D) == t.data[node].size > C

\* whether find_splits groups the children of node
is_split_candidate(t, node, C, D) ==
    t.data[node].size > C \/ Depth(t, node) <= D

\* a label that is not passed up from the child
propagate_nothing(node_label, child_label) == node_label

\* a label joined with "and" instead of "or"
propagate_and(node_label, child_label) == node_label /\ child_label

\* node.has_zip_descendants or child.has_zip_descendants
propagate(node_label, child_label) == node_label \/ child_label

\* lines 382-384: the label of the child is passed up to node
propagate_up(s, node, child) ==
    [s EXCEPT !.tree.data[node].has_zip_descendants =
                 propagate(@, s.tree.data[child].has_zip_descendants)]

\* lines 393-404: the groups of the sorted children of node
groups_of(data, node, children, C) ==
    take_groups(node, children, split_when(accumulate(data, children, 0), 2, 1, C), 0)

\* the groups enter the splits dict and node gets no label
add_splits_unlabelled(s, node, new) ==
    [tree |-> s.tree, splits |-> s.splits \o new]

\* lines 403-406: the groups enter the splits dict and node gets its label
add_splits(s, node, new) ==
    IF new = <<>> THEN s
    ELSE [tree |-> [s.tree EXCEPT !.data[node].has_zip_descendants = TRUE],
          splits |-> s.splits \o new]

\* lines 388-406: node, its children done, is split if it is a candidate
split_node(s, node, C, D) ==
    IF is_split_candidate(s.tree, node, C, D)
    THEN add_splits(s, node,
                    groups_of(s.tree.data, node, sorted_children(s.tree, node), C))
    ELSE s

RECURSIVE find_splits(_, _, _, _)
\* st = [tree, splits]: the tree with the labels set so far and the splits
\* dict in insertion order, a sequence of [node, i, group]
find_splits(st, node, C, D) ==
    LET RECURSIVE Below(_, _)
        Below(s, k) ==
            IF k > Len(st.tree.kids[node]) THEN s
            ELSE Below(propagate_up(find_splits(s, st.tree.kids[node][k], C, D),
                                    node, st.tree.kids[node][k]),
                       k + 1)
    IN  split_node(Below(st, 1), node, C, D)

RECURSIVE move_all(_, _, _)
\* for c in group_children: c.move_to(zipnode)
move_all(t, group, zipnode) ==
    IF group = <<>> THEN t
    ELSE move_all(MoveTo(t, Head(group), zipnode), Tail(group), zipnode)

\* lines 434-438: the PathData of a new archive node
zipnode_data(t, group_children) ==
    [is_dir |-> FALSE,
     is_zip |-> TRUE,
     has_zip_descendants |-> FALSE,
     size |-> SumSizes(t.data, group_children)]

\* lines 446-447: remove node once all its children have been moved
remove_if_empty(t, node) == IF t.kids[node] = <<>> THEN Remove(t, node) ELSE t

\* one round of the loop over splits.items(): the archive node is added next
\* to the split node, the group moves into it, the emptied node is removed
make_zipnode(t, e) ==
    remove_if_empty(
        move_all(AddChild(t, Up(t, e.node), ZipId(e.node, e.i),
                          zipnode_data(t, e.group)),
                 e.group, ZipId(e.node, e.i)),
        e.node)

RECURSIVE make_zipnodes(_, _)
make_zipnodes(t, splits) ==
    IF splits = <<>> THEN t
    ELSE make_zipnodes(make_zipnode(t, Head(splits)), Tail(splits))

RECURSIVE zip_clash(_, _)
\* node.up().add(zipnode_data) raises UniqueConstraintError when the parent
\* already has a node of that data (the same path and is_zip)
zip_clash(t, splits) ==
    IF splits = <<>> THEN FALSE
    ELSE \/ ZipId(Head(splits).node, Head(splits).i) \in Nodes(t)
         \/ zip_clash(make_zipnode(t, Head(splits)), Tail(splits))

RECURSIVE validate_ziptree(_, _)
\* tree.visit(validate_ziptree) over the nodes s and what lies below them, in
\* traversal order: the first error, "" when there is none
validate_ziptree(t, s) ==
    IF s = <<>> THEN ""
    ELSE LET n == Head(s)
             here == IF t.data[n].is_zip
                     THEN (IF IsLeaf(t, n) THEN "empty zipped node" ELSE "")
                     ELSE IF IsLeaf(t, n) THEN "non-zipped leaf"
                     ELSE validate_ziptree(t, t.kids[n])
         IN  IF here # "" THEN here ELSE validate_ziptree(t, Tail(s))

\* the set of str(n.data.path) over the leaves
LeafPaths(t) == {PathOf(n) : n \in Leaves(t)}

\* lines 449-459: the two checks of the tree with its archive nodes
check_ziptree(raw_files, zipped) ==
    IF raw_files \ LeafPaths(zipped) # {} THEN "missing files"
    ELSE validate_ziptree(zipped, zipped.kids[0])

\* what split_into_chunks returns or raises
chunked(error, zipped, splits) ==
    [ok |-> error = "", error |-> error, tree |-> zipped, splits |-> splits]

finish_ziptree(raw_files, zipped, splits) ==
    chunked(check_ziptree(raw_files, zipped), zipped, splits)

\* lines 429-460, from the splits found in the tree
create_zipnodes(raw_files, fs) ==
    IF zip_clash(fs.tree, fs.splits)
    THEN chunked("UniqueConstraintError", fs.tree, fs.splits)
    ELSE finish_ziptree(raw_files, make_zipnodes(fs.tree, fs.splits), fs.splits)

\* [ok, error, tree, splits]
split_into_chunks(t, C, D) ==
    IF FirstChild(t) = 0
    THEN [ok |-> TRUE, error |-> "", tree |-> t, splits |-> <<>>]
    ELSE create_zipnodes(LeafPaths(t),
             find_splits([tree |-> t, splits |-> <<>>], FirstChild(t), C, D))

(***************************************************************************)
(* The driver `upload`.                                                    *)
(***************************************************************************)
\* one entry of the partitions file: {"pattern": ..., "min_zip_depth": ...},
\* the second key optional
Entry(name, pattern) ==
    [name |-> name, pattern |-> pattern, has_depth |-> FALSE, depth |-> 0]

EntryWithDepth(name, pattern, depth) ==
    [name |-> name, pattern |-> pattern, has_depth |-> TRUE, depth |-> depth]

\* the partitions files tried; the first is what `upload` uses without one
PartitionFiles == {
    <<Entry("", None)>>,
    <<Entry("d", <<"*", "/", "d", "/", "*">>), EntryWithDepth("rest", None, 2)>>,
    <<Entry("d", <<"*", "/", "d", "/", "*">>), Entry("two", <<"*", "2">>),
      Entry("rest", None)>>,
    <<Entry("e", <<"*", "/", "e", "/", "*">>)>>,
    <<Entry("metadata", <<"*", "2">>), Entry("e", <<"*", "/", "e", "/", "*">>)>>,
    <<Entry(".", <<"*", "2">>), Entry("", None)>>,
    <<Entry("d", <<"*", "/", "d", "/", "*">>), EntryWithDepth("rest", None, 0)>> }

\* the parent-closed sets of paths below the scan root, MaxNodes at most
ScannedSets ==
    {S \in SUBSET (SkelIds \ {1}) :
        /\ Cardinality(S) <= MaxNodes
        /\ \A n \in S : Skel[n].parent \in S \cup {1}
        /\ \A n \in S : Skel[n].is_dir \/ Skel[Skel[n].parent].is_dir}

\* nothing has run yet
Fresh ==
    /\ file_tree = EmptyTree
    /\ subtrees = <<>>
    /\ parted = <<>>
    /\ found = <<>>
    /\ ci = 1
    /\ err = ""
    /\ again = <<>>
    /\ bucket = {}
    /\ scratch = <<>>
    /\ progress = <<>>
    /\ ui = 1
    /\ zi = 1
    /\ passes = 0
    /\ failures = 0
    /\ log = <<>>

\* the command line: any scanned directory, the options of the upload pass
\* at their defaults (no S3 connection, overwrite off)
Init ==
    /\ pc = "start"
    /\ \E S \in ScannedSets :
         \E st_size \in [{n \in S : ~Skel[n].is_dir} -> SizeSet] :
            disk = [present |-> S \cup {1}, st_size |-> st_size]
    /\ partitions_dict \in PartitionFiles
    /\ chunk_size \in ChunkSizes
    /\ min_zip_depth \in 0..MaxDepthArg
    /\ overwrite = FALSE
    /\ remote = FALSE
    /\ Fresh

\* upload, lines 524-539: the argument check, then the scan
BuildTree ==
    /\ pc = "start"
    /\ IF min_zip_depth <= 0
       THEN /\ pc' = "error"
            /\ err' = "ValueError"
            /\ UNCHANGED file_tree
       ELSE /\ pc' = "partition"
            /\ file_tree' = directory_tree(disk.present, disk.st_size)
            /\ UNCHANGED err
    /\ UNCHANGED <<disk, partitions_dict, chunk_size, min_zip_depth, subtrees,
                   parted, found, ci, again, uploadvars>>

\* {k: v["pattern"] for k, v in partitions_dict.items()}
PatternsOf(pd) == [i \in DOMAIN pd |-> [name |-> pd[i].name, pattern |-> pd[i].pattern]]

\* upload, lines 541-549
PartitionTree ==
    /\ pc = "partition"
    /\ \E r \in {partition_tree_by_fnmatches(file_tree, PatternsOf(partitions_dict),
                                               "metadata")} :
           IF r.ok
           THEN /\ pc' = "split"
                /\ subtrees' = r.subtrees
                /\ parted' = r.subtrees
                /\ UNCHANGED err
           ELSE /\ pc' = "error"
                /\ err' = r.error
                /\ UNCHANGED <<subtrees, parted>>
    /\ UNCHANGED <<disk, partitions_dict, chunk_size, min_zip_depth, file_tree,
                   found, ci, again, uploadvars>>

\* partitions_dict[k].get("min_zip_depth", min_zip_depth), k a key of the dict
DepthFor(pd, k, default) ==
    LET e == pd[CHOOSE i \in DOMAIN pd : pd[i].name = k]
    IN  IF e.has_depth THEN e.depth ELSE default

\* upload, lines 551-561: one round of the comprehension over subtrees.items()
SplitNext ==
    /\ pc = "split"
    /\ LET k == subtrees[ci].name
       IN  IF k \notin Names(partitions_dict)
           THEN /\ pc' = "error"
                /\ err' = "KeyError"
                /\ UNCHANGED <<subtrees, found, ci>>
           ELSE \E r \in {split_into_chunks(subtrees[ci].tree, chunk_size,
                               DepthFor(partitions_dict, k, min_zip_depth))} :
                    IF r.ok
                    THEN /\ subtrees' = [subtrees EXCEPT ![ci].tree = r.tree]
                         /\ found' = Append(found, r.splits)
                         /\ ci' = ci + 1
                         /\ pc' = IF ci = Len(subtrees) THEN "confirm" ELSE "split"
                         /\ UNCHANGED err
                    ELSE /\ pc' = "error"
                         /\ err' = IF r.error = "UniqueConstraintError"
                                   THEN r.error ELSE "RuntimeError"
                         /\ UNCHANGED <<subtrees, found, ci>>
    /\ UNCHANGED <<disk, partitions_dict, chunk_size, min_zip_depth, file_tree,
                   parted, again, uploadvars>>

Next == BuildTree \/ PartitionTree \/ SplitNext

Spec == Init /\ [][Next]_vars

(***************************************************************************)
(* split_into_chunks applied once more, to a tree it has returned.         *)
(***************************************************************************)
SplitAgain ==
    /\ pc = "confirm"
    /\ \E i \in DOMAIN subtrees :
          again' = <<[i |-> i,
                      r |-> split_into_chunks(subtrees[i].tree, chunk_size,
                                DepthFor(partitions_dict, subtrees[i].name,
                                         min_zip_depth))]>>
    /\ pc' = "again"
    /\ UNCHANGED <<disk, partitions_dict, chunk_size, min_zip_depth, file_tree,
                   subtrees, parted, found, ci, err, uploadvars>>

NextAgain == Next \/ SplitAgain

SpecAgain == Init /\ [][NextAgain]_vars

(***************************************************************************)
(* The validation at the end of split_into_chunks, applied to any tree:    *)
(* a scanned tree in which any nodes are marked as archives.               *)
(***************************************************************************)
\* t with the nodes Z being archive nodes (is_zip set, no directory)
MarkZip(t, Z) ==
    [t EXCEPT !.data = [n \in Nodes(t) |->
        IF n \in Z THEN [t.data[n] EXCEPT !.is_zip = TRUE, !.is_dir = FALSE]
        ELSE t.data[n]]]

InitValidate ==
    /\ pc = "validate"
    /\ \E S \in ScannedSets :
          /\ disk = [present |-> S \cup {1},
                     st_size |-> [n \in {m \in S : ~Skel[m].is_dir} |-> 50]]
          /\ \E Z \in SUBSET (S \cup {1}) :
                file_tree = MarkZip(directory_tree(disk.present, disk.st_size), Z)
    /\ partitions_dict = <<Entry("", None)>>
    /\ chunk_size = 100
    /\ min_zip_depth = 1
    /\ overwrite = FALSE
    /\ remote = FALSE
    /\ subtrees = <<>>
    /\ parted = <<>>
    /\ found = <<>>
    /\ ci = 1
    /\ err = ""
    /\ again = <<>>
    /\ bucket = {}
    /\ scratch = <<>>
    /\ progress = <<>>
    /\ ui = 1
    /\ zi = 1
    /\ passes = 0
    /\ failures = 0
    /\ log = <<>>

\* split_into_chunks, lines 457-460: if error := tree.visit(validate_ziptree)
ValidateTree ==
    /\ pc = "validate"
    /\ err' = validate_ziptree(file_tree, file_tree.kids[0])
    /\ pc' = "validated"
    /\ UNCHANGED <<disk, partitions_dict, chunk_size, min_zip_depth, file_tree,
                   subtrees, parted, found, ci, again, uploadvars>>

SpecValidate == InitValidate /\ [][ValidateTree]_vars

(***************************************************************************)
(* The upload pass of `upload` (lines 563-678): every archive node of      *)
(* every tree is zipped into the temporary directory and uploaded.         *)
(***************************************************************************)
RECURSIVE ZipOrder(_, _)
\* tree.visit(upload_ziptree) over the nodes s and what lies below them: the
\* archive nodes in traversal order; SkipBranch leaves out what an archive holds
ZipOrder(t, s) ==
    IF s = <<>> THEN <<>>
    ELSE (IF t.data[Head(s)].is_zip THEN <<Head(s)>>
          ELSE ZipOrder(t, t.kids[Head(s)]))
         \o ZipOrder(t, Tail(s))

\* the characters of a partition name
Chars(name) ==
    CASE name = "" -> <<>>
      [] name = "." -> <<".">>
      [] name = "d" -> <<"d">>
      [] name = "e" -> <<"e">>
      [] name = "two" -> <<"t", "w", "o">>
      [] name = "rest" -> <<"r", "e", "s", "t">>
      [] name = "metadata" -> <<"m", "e", "t", "a", "d", "a", "t", "a">>

RECURSIVE PathParts(_, _, _)
\* the components pathlib keeps of the string s: what lies between the
\* separators, empty components and "." left out
PathParts(s, cur, acc) ==
    LET done == IF cur \in {<<>>, <<".">>} THEN acc ELSE Append(acc, cur)
    IN  IF s = <<>> THEN done
        ELSE IF Head(s) = "/" THEN PathParts(Tail(s), <<>>, done)
        ELSE PathParts(Tail(s), Append(cur, Head(s)), acc)

RECURSIVE JoinParts(_)
\* str() of a relative path with the given components
JoinParts(parts) ==
    IF parts = <<>> THEN <<>>
    ELSE IF Len(parts) = 1 THEN parts[1]
    ELSE parts[1] \o <<"/">> \o JoinParts(Tail(parts))

\* str(Path(prefix or "") / node.data.path.relative_to(path.parent)); the scan
\* root lies in "/"
ObjectKey(prefix, n) ==
    JoinParts(PathParts(Chars(prefix), <<>>, <<>>) \o PathParts(PathOf(n), <<>>, <<>>))

\* the archive nodes of the tree being visited, and the key of the next one
CurZips == ZipOrder(subtrees[ui].tree, subtrees[ui].tree.kids[0])

CurKey == ObjectKey(subtrees[ui].name, CurZips[zi])

\* the leaves archive.write puts into the bundle of node n (line 641: none
\* when neither a bucket nor a prefix is given)
Bundle(t, n) == IF remote THEN {PathOf(m) : m \in Branch(t, n) \cap Leaves(t)} ELSE {}

\* s3_client.head_object: it returns, or raises ClientError with the status
\* code, or a call that fails raises something else (no connection)
head_object(key) ==
    (IF key \in bucket THEN {[raises |-> "", code |-> 200]}
     ELSE {[raises |-> "ClientError", code |-> 404]})
    \cup (IF failures < MaxFailures
          THEN {[raises |-> "ClientError", code |-> 500],
                [raises |-> "EndpointConnectionError", code |-> 0]}
          ELSE {})

\* an existence check that never finds the object
check_exists_never(o) == FALSE

\* check_exists, lines 139-145, for a call that returned or raised ClientError
check_exists(o) == IF o.raises = "ClientError" THEN o.code # 404 ELSE TRUE

\* s3_client.upload_file: done, ClientError, or the error boto3 raises for a
\* failed transfer
s3_upload_file ==
    {"ok"} \cup (IF failures < MaxFailures
                 THEN {"ClientError", "S3UploadFailedError"} ELSE {})

\* the directories the upload pass is checked on
UploadDisks == {
    [present |-> {1, 7, 8, 9}, st_size |-> (7 :> 50) @@ (8 :> 80) @@ (9 :> 120)],
    [present |-> {1, 2, 3, 4, 6, 7},
     st_size |-> (4 :> 50) @@ (6 :> 120) @@ (7 :> 50)] }

\* the command line with any options of the upload pass
InitUpload ==
    /\ pc = "start"
    /\ disk \in UploadDisks
    /\ partitions_dict \in PartitionFiles
    /\ chunk_size \in ChunkSizes
    /\ min_zip_depth \in 0..MaxDepthArg
    /\ overwrite \in BOOLEAN
    /\ remote \in BOOLEAN
    /\ Fresh

treevars == <<disk, partitions_dict, chunk_size, min_zip_depth, file_tree,
              subtrees, parted, found, ci, again, overwrite, remote>>

\* lines 571-612: the prompts; "no" leaves with sys.exit(1)
Confirm ==
    /\ pc = "confirm"
    /\ \E yes \in BOOLEAN :
          IF yes
          THEN /\ pc' = "visit"
               /\ passes' = 1
               /\ progress' = <<0>>
          ELSE /\ pc' = "exit"
               /\ UNCHANGED <<passes, progress>>
    /\ UNCHANGED <<treevars, err, bucket, scratch, ui, zi, failures, log>>

\* the zip file opened in the temporary directory (lines 636-640)
Opened(key) == <<[key |-> key, closed |-> FALSE, members |-> {}]>>

\* upload_ziptree, lines 623-640, on the next archive node: the existence
\* check, then either the skip or the zip file is opened
CheckExists ==
    /\ pc = "visit"
    /\ zi <= Len(CurZips)
    /\ IF overwrite \/ ~remote
       THEN /\ scratch' = Opened(CurKey)
            /\ pc' = "write"
            /\ UNCHANGED <<err, progress, zi, failures, log>>
       ELSE \E o \in head_object(CurKey) :
              /\ failures' = IF o.code \in {200, 404} THEN failures ELSE failures + 1
              /\ IF o.raises \notin {"", "ClientError"}
                 THEN /\ pc' = "error"
                      /\ err' = o.raises
                      /\ UNCHANGED <<scratch, progress, zi, log>>
                 ELSE IF check_exists(o)
                 THEN /\ log' = Append(log, [pass |-> passes, key |-> CurKey,
                                             event |-> "skipped"])
                      /\ progress' = [progress EXCEPT ![ui] = @ + 1]
                      /\ zi' = zi + 1
                      /\ UNCHANGED <<pc, err, scratch>>
                 ELSE /\ scratch' = Opened(CurKey)
                      /\ pc' = "write"
                      /\ UNCHANGED <<err, progress, zi, log>>
    /\ UNCHANGED <<treevars, bucket, ui, passes>>

\* a bundle that is published while it is being written
WriteArchive_publishes ==
    /\ pc = "write"
    /\ scratch' = <<[scratch[1] EXCEPT
                       !.closed = TRUE,
                       !.members = Bundle(subtrees[ui].tree, CurZips[zi])]>>
    /\ bucket' = IF remote THEN bucket \cup {scratch[1].key} ELSE bucket
    /\ pc' = "publish"
    /\ UNCHANGED <<treevars, err, progress, ui, zi, passes, failures, log>>

\* upload_ziptree, lines 640-646: the leaves are written and the zip file is
\* closed, or a write fails (OSError) and the temporary directory is removed
WriteArchive ==
    /\ pc = "write"
    /\ \/ /\ scratch' = <<[scratch[1] EXCEPT
                             !.closed = TRUE,
                             !.members = Bundle(subtrees[ui].tree, CurZips[zi])]>>
          /\ pc' = "publish"
          /\ UNCHANGED <<err, failures>>
       \/ /\ failures < MaxFailures
          /\ failures' = failures + 1
          /\ scratch' = <<>>
          /\ pc' = "error"
          /\ err' = "OSError"
    /\ UNCHANGED <<treevars, bucket, progress, ui, zi, passes, log>>

\* upload_ziptree, lines 647-650: upload (upload_file, lines 148-169, or the
\* log line of local mode), the temporary directory is removed, advance=1
UploadArchive ==
    /\ pc = "publish"
    /\ IF ~remote
       THEN /\ log' = Append(log, [pass |-> passes, key |-> scratch[1].key,
                                   event |-> "would have uploaded"])
            /\ progress' = [progress EXCEPT ![ui] = @ + 1]
            /\ zi' = zi + 1
            /\ pc' = "visit"
            /\ UNCHANGED <<err, bucket, failures>>
       ELSE \E o \in s3_upload_file :
              /\ failures' = IF o = "ok" THEN failures ELSE failures + 1
              /\ IF o = "S3UploadFailedError"
                 THEN /\ pc' = "error"
                      /\ err' = o
                      /\ UNCHANGED <<bucket, progress, zi, log>>
                 ELSE /\ bucket' = IF o = "ok" THEN bucket \cup {scratch[1].key}
                                   ELSE bucket
                      /\ log' = Append(log, [pass |-> passes, key |-> scratch[1].key,
                                 event |-> IF o = "ok" THEN "uploaded" ELSE "failed"])
                      /\ progress' = [progress EXCEPT ![ui] = @ + 1]
                      /\ zi' = zi + 1
                      /\ pc' = "visit"
                      /\ UNCHANGED err
    /\ scratch' = <<>>
    /\ UNCHANGED <<treevars, ui, passes>>

\* lines 652-669: the visit of one tree is over; the next tree, or the trees
\* are saved (lines 671-678) and the run ends
NextTree ==
    /\ pc = "visit"
    /\ zi > Len(CurZips)
    /\ IF ui < Len(subtrees)
       THEN /\ ui' = ui + 1
            /\ zi' = 1
            /\ progress' = Append(progress, 0)
            /\ UNCHANGED pc
       ELSE /\ pc' = "done"
            /\ UNCHANGED <<ui, zi, progress>>
    /\ UNCHANGED <<treevars, err, bucket, scratch, passes, failures, log>>

\* the run is interrupted during the upload pass: between two archives, while
\* a bundle is written, or before it is uploaded
Abort ==
    /\ pc \in {"visit", "write", "publish"}
    /\ pc' = "aborted"
    /\ log' = Append(log, [pass |-> passes,
                           key |-> <<>>,
                           event |-> IF pc = "visit" THEN "aborted between archives"
                                     ELSE "aborted in an archive"])
    /\ UNCHANGED <<treevars, err, bucket, scratch, progress, ui, zi, passes,
                   failures>>

\* the command is run again after an interrupted run: the same directory and
\* options give the same trees, and the upload pass starts over
Rerun ==
    /\ pc = "aborted"
    /\ passes < MaxPasses
    /\ pc' = "visit"
    /\ passes' = passes + 1
    /\ progress' = <<0>>
    /\ ui' = 1
    /\ zi' = 1
    /\ scratch' = <<>>
    /\ UNCHANGED <<treevars, err, bucket, failures, log>>

NextUpload ==
    \/ Next
    \/ Confirm
    \/ CheckExists
    \/ WriteArchive
    \/ UploadArchive
    \/ NextTree
    \/ Abort
    \/ Rerun

SpecUpload == InitUpload /\ [][NextUpload]_vars

(***************************************************************************)
(* What the claims speak of.                                               *)
(***************************************************************************)
\* the entries of subtrees that split_into_chunks has returned
Done == 1..Len(found)

\* the partition tree before and after split_into_chunks
Before(i) == parted[i].tree

After(i) == subtrees[i].tree

\* the min_zip_depth entry i was split with
UsedDepth(i) == DepthFor(partitions_dict, subtrees[i].name, min_zip_depth)

Archives(t) == {n \in Nodes(t) : t.data[n].is_zip}

\* how often a leaf with path p hangs in the tree
Occurrences(t, p) ==
    Cardinality(UNION {
        {<<par, k>> : k \in {j \in DOMAIN t.kids[par] :
                                /\ PathOf(t.kids[par][j]) = p
                                /\ IsLeaf(t, t.kids[par][j])}}
        : par \in DOMAIN t.kids})

\* the nodes whose children find_splits grouped
SplitNodes(i) == {found[i][k].node : k \in DOMAIN found[i]}

\* the groups of node n, by index
GroupsOf(i, n) == SelectSeq(found[i], LAMBDA e : e.node = n)

RECURSIVE Members(_)
\* the members of a node's groups, group after group
Members(gs) == IF gs = <<>> THEN <<>> ELSE Head(gs).group \o Members(Tail(gs))

RECURSIVE Labels(_)
\* for every member, in the same order, the index of its group
Labels(gs) ==
    IF gs = <<>> THEN <<>>
    ELSE [j \in 1..Len(Head(gs).group) |-> Head(gs).i] \o Labels(Tail(gs))

\* the children of n with no grouped node in their branch
Eligible(i, n) ==
    {c \in Range(Before(i).kids[n]) : Branch(Before(i), c) \cap SplitNodes(i) = {}}

(***************************************************************************)
(* C1: partitioning is a leaf-exact cover: when                            *)
(* partition_tree_by_fnmatches succeeds, every leaf of the source tree is  *)
(* a leaf of exactly one returned partition tree, and no partition tree    *)
(* has a leaf that is not a source leaf.                                   *)
(***************************************************************************)
C1_LeafExactCover ==
    parted # <<>> =>
        /\ \A n \in Leaves(file_tree) :
              Cardinality({i \in DOMAIN parted :
                              PathOf(n) \in LeafPaths(parted[i].tree)}) = 1
        /\ \A i \in DOMAIN parted : LeafPaths(parted[i].tree) \subseteq LeafPaths(file_tree)

\* two partitions came back, over a tree of three leaves or more
C1_Witness ==
    /\ Len(parted) = 2
    /\ Cardinality(Leaves(file_tree)) >= 3

(***************************************************************************)
(* C2: after split_into_chunks succeeds the tree is in normal form: every  *)
(* leaf is a direct file child of the partition root or has exactly one    *)
(* archive node among its ancestors.                                       *)
(***************************************************************************)
C2_NormalForm ==
    \A i \in Done :
        \A n \in Leaves(After(i)) :
            \/ IsFile(n) /\ Up(After(i), n) = 1
            \/ Cardinality(Ancestors(After(i), n) \cap Archives(After(i))) = 1

\* a chunked tree with archives on two levels
C2_Witness ==
    \E i \in Done :
        \E y, z \in Archives(After(i)) :
            Depth(After(i), y) # Depth(After(i), z)

(***************************************************************************)
(* C3: chunking conserves leaves: every leaf path of the tree before       *)
(* split_into_chunks is in the tree after it exactly once.                 *)
(***************************************************************************)
C3_LeavesConserved ==
    \A i \in Done :
        \A p \in LeafPaths(Before(i)) : Occurrences(After(i), p) = 1

\* a chunked tree of three leaves or more in which a directory was pruned
C3_Witness ==
    \E i \in Done :
        /\ Cardinality(Leaves(Before(i))) >= 3
        /\ Archives(After(i)) # {}
        /\ Nodes(Before(i)) \ Nodes(After(i)) # {}

(***************************************************************************)
(* C4: size bound: every archive's size is at most 1.5 * chunk_size,       *)
(* except an archive whose group is a single file larger than chunk_size.  *)
(***************************************************************************)
C4_SizeBound ==
    \A i \in Done :
        \A z \in Archives(After(i)) :
            \/ 2 * After(i).data[z].size <= 3 * chunk_size
            \/ /\ Len(After(i).kids[z]) = 1
               /\ IsFile(After(i).kids[z][1])
               /\ After(i).data[After(i).kids[z][1]].size > chunk_size

(***************************************************************************)
(* C5: no re-split: after split_into_chunks no archive node has another    *)
(* archive node among its descendants.                                     *)
(***************************************************************************)
C5_NoNestedArchive ==
    \A i \in Done :
        \A z \in Archives(After(i)) :
            Branch(After(i), z) \cap Archives(After(i)) = {z}

\* a chunked tree in which a directory holds the archives of a directory
\* below it and has an archive of its own
C5_Witness ==
    \E i \in Done :
        \E y, z \in Archives(After(i)) :
            /\ Up(After(i), y) = ZipSrc(z)
            /\ Up(After(i), y) # 0

(***************************************************************************)
(* C6: grouping rule: the groups of a node are the maximal contiguous runs *)
(* of its sorted eligible children whose running cumulative size has the   *)
(* same floor(cum / chunk_size): a new group starts at child j iff         *)
(* floor(cum_j / C) # floor(cum_(j-1) / C).  Sizes 50, 80, 120 give three  *)
(* singleton groups for C = 100 and the groups {50, 80}, {120} for C = 200.*)
(***************************************************************************)
\* the running cumulative size at member j
CumAt(i, seq, j) == SumSizes(Before(i).data, SubSeq(seq, 1, j))

\* the scanned directory of examples 1 and 2: files a, b, c of 50, 80, 120
IsExample ==
    /\ disk = [present |-> {1, 7, 8, 9},
               st_size |-> (7 :> 50) @@ (8 :> 80) @@ (9 :> 120)]
    /\ min_zip_depth = 1
    /\ Len(found) = 1

C6_GroupingRule ==
    /\ \A i \in Done :
          \A n \in SplitNodes(i) :
              LET gs == GroupsOf(i, n)
                  seq == Members(gs)
                  lab == Labels(gs)
              IN  /\ \A k \in DOMAIN gs : gs[k].i = k - 1 /\ gs[k].group # <<>>
                  /\ Range(seq) = Eligible(i, n)
                  /\ Cardinality(Range(seq)) = Len(seq)
                  /\ \A j \in 2..Len(seq) :
                        (lab[j] # lab[j - 1]) <=>
                            (CumAt(i, seq, j) \div chunk_size
                                # CumAt(i, seq, j - 1) \div chunk_size)
    /\ IsExample /\ chunk_size = 100 =>
          [k \in DOMAIN found[1] |-> found[1][k].group] = <<<<7>>, <<8>>, <<9>>>>
    /\ IsExample /\ chunk_size = 200 =>
          [k \in DOMAIN found[1] |-> found[1][k].group] = <<<<7, 8>>, <<9>>>>

\* example 2 was split: a group of two members and another group
C6_Witness ==
    /\ IsExample
    /\ chunk_size = 200
    /\ Len(found[1]) = 2
    /\ Len(found[1][1].group) = 2

(***************************************************************************)
(* C7: a file larger than chunk_size forms a group of its own: the archive *)
(* that contains it contains no other member.                              *)
(***************************************************************************)
C7_OversizeFileAlone ==
    \A i \in Done :
        \A z \in Archives(After(i)) :
            \A f \in Range(After(i).kids[z]) :
                IsFile(f) /\ After(i).data[f].size > chunk_size
                    => After(i).kids[z] = <<f>>

(***************************************************************************)
(* C8: before grouping, the eligible children of a split candidate are     *)
(* ordered files before directories, and within each kind by natural order *)
(* of path; group membership and archive indices follow that order.        *)
(***************************************************************************)
\* how many digits end the name
TrailingDigits(name) ==
    Cardinality({k \in DOMAIN name : \A m \in k..Len(name) : name[m] \in Digits})

\* the name without the digits that end it
TextOf(name) == SubSeq(name, 1, Len(name) - TrailingDigits(name))

\* the number that ends the name, less than zero when there is none
NumberOf(name) ==
    IF TrailingDigits(name) = 0 THEN 0 - 1
    ELSE ToInt(SubSeq(name, Len(name) - TrailingDigits(name) + 1, Len(name)), 0)

\* natural order of two siblings: by the text of the name, then by its number
NaturallyBefore(a, b) ==
    \/ StrLess(TextOf(NameOf(a)), TextOf(NameOf(b)))
    \/ /\ TextOf(NameOf(a)) = TextOf(NameOf(b))
       /\ NumberOf(NameOf(a)) < NumberOf(NameOf(b))

FilesFirst(a, b) ==
    IF IsFile(a) # IsFile(b) THEN IsFile(a) ELSE NaturallyBefore(a, b)

DirectoriesFirst(a, b) ==
    IF IsFile(a) # IsFile(b) THEN IsFile(b) ELSE NaturallyBefore(a, b)

\* the groups of every split node are numbered from 0 without a gap
IndicesInOrder ==
    \A i \in Done :
        \A n \in SplitNodes(i) :
            \A k \in DOMAIN GroupsOf(i, n) : GroupsOf(i, n)[k].i = k - 1

\* the claim as made: the members of every split node, group after group by
\* index, have files before directories
C8_FilesBeforeDirectories ==
    /\ IndicesInOrder
    /\ \A i \in Done :
          \A n \in SplitNodes(i) :
              LET seq == Members(GroupsOf(i, n))
              IN  \A j, k \in DOMAIN seq : j < k => ~FilesFirst(seq[k], seq[j])

\* the claim as amended: directories before files, natural order within each
C8_DirectoriesBeforeFiles ==
    /\ IndicesInOrder
    /\ \A i \in Done :
          \A n \in SplitNodes(i) :
              LET seq == Members(GroupsOf(i, n))
              IN  \A j, k \in DOMAIN seq : j < k => ~DirectoriesFirst(seq[k], seq[j])

\* a node was split whose eligible children are a directory and the files
\* f10 and f2
C8_Witness ==
    \E i \in Done :
        \E n \in SplitNodes(i) :
            LET seq == Members(GroupsOf(i, n))
            IN  /\ \E c \in Range(seq) : ~IsFile(c)
                /\ {5, 6} \subseteq Range(seq)

(***************************************************************************)
(* C9: depth coverage: after chunking with min_zip_depth D >= 1, every     *)
(* directory at depth <= D that has an eligible child yields an archive;   *)
(* the partition root is always split, whatever its size.                  *)
(***************************************************************************)
\* the directories of entry i the claim speaks of
ShallowDirs(i) ==
    {n \in Nodes(Before(i)) :
        /\ Depth(Before(i), n) <= UsedDepth(i)
        /\ Eligible(i, n) # {}}

\* the claim as made: the archive is a child of the directory
C9_ArchiveChild ==
    \A i \in Done :
        UsedDepth(i) >= 1 =>
            \A n \in ShallowDirs(i) :
                /\ n \in Nodes(After(i))
                /\ \E z \in Range(After(i).kids[n]) : After(i).data[z].is_zip

\* the claim as amended: the archive of group 0 stands where the directory
\* stood, as a child of the directory's parent
C9_ArchiveSibling ==
    \A i \in Done :
        UsedDepth(i) >= 1 =>
            \A n \in ShallowDirs(i) :
                /\ ZipId(n, 0) \in Archives(After(i))
                /\ Up(After(i), ZipId(n, 0)) = Up(Before(i), n)
                /\ After(i).kids[ZipId(n, 0)] # <<>>

\* chunked with a depth of 2: a directory below the root, no larger than
\* chunk_size, has an eligible child, and so has the root
C9_Witness ==
    \E i \in Done :
        /\ UsedDepth(i) = 2
        /\ Before(i).data[1].size <= chunk_size
        /\ 1 \in ShallowDirs(i)
        /\ 2 \in ShallowDirs(i)

(***************************************************************************)
(* C10: size consistency after chunking: every directory node and every    *)
(* archive node has the sum of the sizes of its children as its size.      *)
(***************************************************************************)
C10_SizesConsistent ==
    \A i \in Done :
        \A n \in Nodes(After(i)) :
            After(i).data[n].is_dir \/ After(i).data[n].is_zip =>
                After(i).data[n].size = SumSizes(After(i).data, After(i).kids[n])

(***************************************************************************)
(* C11: each returned partition tree is the minimal induced sub-tree of    *)
(* its leaves: every node of it is a source leaf assigned to it or has     *)
(* such a leaf below it; a directory with no assigned leaf below it is not *)
(* in the tree.                                                            *)
(***************************************************************************)
\* the source leaves that partition tree i holds as leaves
AssignedLeafs(i) == Leaves(file_tree) \cap Leaves(parted[i].tree)

C11_MinimalInducedSubtree ==
    \A i \in DOMAIN parted :
        \A n \in Nodes(parted[i].tree) :
            /\ Branch(parted[i].tree, n) \cap AssignedLeafs(i) # {}
            /\ IsLeaf(parted[i].tree, n) => n \in Leaves(file_tree)
            /\ Up(parted[i].tree, n) = Up(file_tree, n)

\* two partitions came back and a source directory with children is in one
\* of them only
C11_Witness ==
    /\ Len(parted) = 2
    /\ \E n \in Nodes(file_tree) \ Leaves(file_tree) :
          /\ n \in Nodes(parted[1].tree)
          /\ n \notin Nodes(parted[2].tree)

(***************************************************************************)
(* C12: in every returned partition tree the size of a directory is the    *)
(* sum of the sizes of that partition's leaves below it; leaves of other   *)
(* partitions are not counted.                                             *)
(***************************************************************************)
\* the sum of the source sizes of the leaves of partition tree i below n
LeafSum(i, n) ==
    SumSizes(file_tree.data,
             SortedIds(Branch(parted[i].tree, n) \cap Leaves(parted[i].tree)))

C12_PartitionSizes ==
    \A i \in DOMAIN parted :
        \A n \in Nodes(parted[i].tree) :
            parted[i].tree.data[n].is_dir =>
                parted[i].tree.data[n].size = LeafSum(i, n)

\* a directory whose leaves went to two partitions: in the partition tree it
\* is smaller than in the source tree, and not empty
C12_Witness ==
    \E i \in DOMAIN parted :
        \E n \in Nodes(parted[i].tree) :
            /\ parted[i].tree.data[n].is_dir
            /\ parted[i].tree.data[n].size > 0
            /\ parted[i].tree.data[n].size < file_tree.data[n].size

(***************************************************************************)
(* C13: if a leaf matches the patterns of two different non-default        *)
(* partitions of the configuration, partitioning fails with an error and   *)
(* returns no partitions: the leaf is not assigned to either of them.      *)
(***************************************************************************)
\* the entries of the partitions file whose pattern is not the wildcard
NonDefault == {i \in DOMAIN partitions_dict : partitions_dict[i].pattern # None}

\* a source leaf that matches the patterns of two such entries
Overlap ==
    \E n \in Leaves(file_tree) :
        \E i, j \in NonDefault :
            /\ i # j
            /\ fnmatch(PathOf(n), partitions_dict[i].pattern)
            /\ fnmatch(PathOf(n), partitions_dict[j].pattern)

\* partition_tree_by_fnmatches has been called
Partitioned == pc \notin {"start", "partition"} /\ Nodes(file_tree) # {}

C13_OverlapIsFatal ==
    Partitioned /\ Overlap => pc = "error" /\ parted = <<>>

(***************************************************************************)
(* C14: the default partition holds exactly the source leaves that no      *)
(* non-default pattern of the configuration matches; without a wildcard    *)
(* entry in the configuration it is created, named "metadata", and         *)
(* receives those leaves.                                                  *)
(***************************************************************************)
\* the name of the default partition
DefaultName ==
    IF NonDefault = DOMAIN partitions_dict THEN "metadata"
    ELSE partitions_dict[CHOOSE i \in DOMAIN partitions_dict :
                            i \notin NonDefault].name

\* the leaves of the returned partition of that name, none if it is absent
LeavesOfPartition(name) ==
    UNION {Leaves(parted[i].tree) : i \in {j \in DOMAIN parted : parted[j].name = name}}

\* the source leaves that no non-default pattern matches
LeftOver ==
    {n \in Leaves(file_tree) :
        \A i \in NonDefault : ~fnmatch(PathOf(n), partitions_dict[i].pattern)}

C14_DefaultHoldsTheRest ==
    parted # <<>> => LeavesOfPartition(DefaultName) = LeftOver

(***************************************************************************)
(* C15: chunking is idempotent: split_into_chunks run again, with the same *)
(* chunk size and depth, on a tree it has returned creates no new archive  *)
(* node and neither merges nor re-splits an existing one: the tree comes   *)
(* back with the same archive nodes holding the same members.              *)
(***************************************************************************)
C15_SecondRunChangesNothing ==
    pc = "again" =>
        LET t == subtrees[again[1].i].tree
            r == again[1].r
        IN  /\ r.ok
            /\ r.splits = <<>>
            /\ Archives(r.tree) = Archives(t)
            /\ \A z \in Archives(t) : r.tree.kids[z] = t.kids[z]

(***************************************************************************)
(* C16: validation of the finished tree fails whenever the tree has an     *)
(* archive node with no children, or a non-archive leaf below the          *)
(* partition root that is neither inside an archive nor a direct file      *)
(* child of the root.                                                      *)
(***************************************************************************)
\* an archive node without children
EmptyArchive(t) == \E z \in Archives(t) : IsLeaf(t, z)

\* a leaf that is no archive, lies below the root outside every archive and
\* is no file directly in the root
StrayLeaf(t) ==
    \E n \in Leaves(t) \ Archives(t) :
        /\ Up(t, n) # 0
        /\ Ancestors(t, n) \cap Archives(t) = {}
        /\ ~(IsFile(n) /\ Up(t, n) = FirstChild(t))

C17_SkipIfExists ==
    [][(/\ pc = "visit"
        /\ zi <= Len(CurZips)
        /\ ~overwrite
        /\ CurKey \in bucket
        /\ pc' \notin {"aborted", "error"})
       => /\ scratch' = <<>>
          /\ bucket' = bucket
          /\ log' = Append(log, [pass |-> passes, key |-> CurKey, event |-> "skipped"])
          /\ progress' = [progress EXCEPT ![ui] = @ + 1]
          /\ zi' = zi + 1
          /\ pc' = "visit"]_vars

\* an archive uploaded in the first pass has just been skipped in the second
C17_Witness ==
    /\ ~overwrite
    /\ passes = 2
    /\ pc = "visit"
    /\ log # <<>>
    /\ log[Len(log)].event = "skipped"
    /\ log[Len(log)].key \in bucket
    /\ \E j \in DOMAIN log :
          /\ log[j].pass = 1
          /\ log[j].event = "uploaded"
          /\ log[j].key = log[Len(log)].key
    /\ progress[ui] >= 1

(***************************************************************************)
(* C18: an archive is published under its key only after its bundle in the *)
(* temporary directory has been written completely and closed; while the   *)
(* bundle is being written, and when the run is interrupted or fails then, *)
(* nothing is published for that key.                                      *)
(***************************************************************************)
C18_PublishAfterClose ==
    [][/\ bucket' # bucket =>
            /\ scratch # <<>>
            /\ scratch[1].closed
            /\ scratch[1].members = Bundle(subtrees[ui].tree, CurZips[zi])
            /\ scratch[1].key = CurKey
            /\ bucket' = bucket \cup {CurKey}
       /\ pc = "write" =>
            /\ ~scratch[1].closed
            /\ bucket' = bucket
            /\ log' # log => log'[Len(log')].event = "aborted in an archive"]_vars

\* the run was interrupted while the second bundle was being written: the
\* first archive is in the bucket, the second is not
C18_Witness ==
    /\ pc = "aborted"
    /\ scratch # <<>>
    /\ ~scratch[1].closed
    /\ scratch[1].key \notin bucket
    /\ \E j \in DOMAIN log : log[j].event = "uploaded" /\ log[j].key \in bucket

(***************************************************************************)
(* C19: retry: a run is interrupted between two archives and the upload    *)
(* pass is run again with overwrite off; when the second pass is over,     *)
(* every archive key is in the bucket and was uploaded exactly once.       *)
(***************************************************************************)
\* the keys of all archive nodes of the run
AllKeys ==
    UNION {{ObjectKey(subtrees[i].name, z) :
               z \in Range(ZipOrder(subtrees[i].tree, subtrees[i].tree.kids[0]))}
           : i \in DOMAIN subtrees}

\* how often the key was uploaded
Uploads(key) ==
    Cardinality({j \in DOMAIN log : log[j].key = key /\ log[j].event = "uploaded"})

\* the first pass uploaded an archive and was interrupted between two
\* archives, the second pass ran to its end, and no upload was reported as
\* failed
RetriedToTheEnd ==
    /\ pc = "done"
    /\ passes = 2
    /\ ~overwrite
    /\ remote
    /\ \E j \in DOMAIN log : log[j].pass = 1 /\ log[j].event = "uploaded"
    /\ \E j \in DOMAIN log :
          log[j].pass = 1 /\ log[j].event = "aborted between archives"
    /\ \A j \in DOMAIN log : log[j].event # "failed"

C19_RetryUploadsTheRest ==
    RetriedToTheEnd =>
        \A key \in AllKeys : key \in bucket /\ Uploads(key) = 1

(***************************************************************************)
(* C20: a failed existence check or a failed upload of one archive is not  *)
(* fatal: the run does not end with the error of an S3 call.               *)
(***************************************************************************)
C20_StoreFailureNotFatal ==
    err \notin {"EndpointConnectionError", "S3UploadFailedError"}

(***************************************************************************)
(* C21: two distinct archive nodes of one run, in one partition or in two, *)
(* have distinct object keys.                                              *)
(***************************************************************************)
\* the archive nodes of the run, each with the index of its partition
ArchiveNodes ==
    UNION {{<<i, z>> : z \in Archives(subtrees[i].tree)} : i \in DOMAIN subtrees}

C21_DistinctKeys ==
    pc = "confirm" =>
        \A a, b \in ArchiveNodes :
            a # b => ObjectKey(subtrees[a[1]].name, a[2])
                     # ObjectKey(subtrees[b[1]].name, b[2])

(***************************************************************************)
(* C22: a minimum split depth of 0 or less is rejected, be it the global   *)
(* one or the override of one partition: no partition is ever chunked with *)
(* a minimum split depth of 0 or less.                                     *)
(***************************************************************************)
C22_DepthRejected ==
    \A i \in Done : UsedDepth(i) >= 1

(***************************************************************************)
(* C23: a directory that is no split candidate (size <= C and depth > D)   *)
(* is kept whole: no archive is made from its children, it keeps its       *)
(* children, and one archive holds all the leaves below it.                *)
(***************************************************************************)
\* the directories of partition i that are no split candidates
KeptDirs(i) ==
    {n \in Nodes(Before(i)) :
        /\ Before(i).data[n].is_dir
        /\ Before(i).data[n].size <= chunk_size
        /\ Depth(Before(i), n) > UsedDepth(i)}

C23_KeptWhole ==
    \A i \in Done : \A n \in KeptDirs(i) :
        /\ n \notin SplitNodes(i)
        /\ n \in Nodes(After(i))
        /\ After(i).kids[n] = Before(i).kids[n]
        /\ \E z \in Archives(After(i)) :
              Branch(Before(i), n) \cap Leaves(Before(i)) \subseteq Branch(After(i), z)

\* a directory with two files that is smaller than the chunk size and lies
\* below the minimum split depth has been chunked
C23_Witness ==
    \E i \in Done : \E n \in KeptDirs(i) :
        /\ Cardinality(Branch(Before(i), n) \cap Leaves(Before(i))) >= 2
        /\ Up(Before(i), n) # 0
        /\ pc = "confirm"

(***************************************************************************)
(* C24: after the split search over a tree with no flag set, the flag      *)
(* has_zip_descendants of a node is set exactly if the node or a node      *)
(* below it produced a group, and no member of a group has its flag set.   *)
(***************************************************************************)
\* the flag of node n of partition i when find_splits has returned
FlagAfterSearch(i, n) ==
    find_splits([tree |-> Before(i), splits |-> <<>>], FirstChild(Before(i)),
                chunk_size, UsedDepth(i)).tree.data[n].has_zip_descendants

C24_FlagIffGrouped ==
    \A i \in Done :
        /\ \A n \in Nodes(Before(i)) : ~Before(i).data[n].has_zip_descendants
        /\ \A n \in Nodes(Before(i)) :
              FlagAfterSearch(i, n) <=> (Branch(Before(i), n) \cap SplitNodes(i) # {})
        /\ \A k \in DOMAIN found[i] : \A m \in Range(found[i][k].group) :
              ~FlagAfterSearch(i, m)

\* the root produced no group itself and has its flag set by a directory
\* below it that did, and another directory produced none and has no flag
C24_Witness ==
    \E i \in Done : \E n, m \in Nodes(Before(i)) :
        /\ pc = "confirm"
        /\ n \notin SplitNodes(i)
        /\ FlagAfterSearch(i, n)
        /\ Before(i).kids[m] # <<>>
        /\ ~FlagAfterSearch(i, m)

(***************************************************************************)
(* C25: every partition that partition_tree_by_fnmatches returns is        *)
(* chunked, with the override of its configuration entry or else with the  *)
(* global minimum split depth; the default partition created without a     *)
(* configuration entry is chunked with the global value, so the lookup of  *)
(* a partition's depth never fails.                                        *)
(***************************************************************************)
C25_EveryPartitionChunked ==
    /\ err # "KeyError"
    /\ \A i \in Done :
          /\ subtrees[i].name \in Names(partitions_dict)
          /\ UsedDepth(i) \in
                {partitions_dict[k].depth : k \in {j \in DOMAIN partitions_dict :
                    partitions_dict[j].name = subtrees[i].name /\ partitions_dict[j].has_depth}}
                \cup {min_zip_depth}

(***************************************************************************)
(* C26: within one pass the progress of a partition never decreases, it    *)
(* advances by exactly one for every archive node that has been handled,   *)
(* be it skipped, uploaded or its upload failed, by nothing else, and when *)
(* the visit of the partition's tree is over it equals the number of       *)
(* archive nodes of the tree.                                              *)
(***************************************************************************)
\* this step ends the handling of the archive node at hand: it was skipped
\* or uploaded, or its upload failed
Handled ==
    \/ /\ log' # log
       /\ log'[Len(log')].event \in {"skipped", "uploaded", "would have uploaded", "failed"}
    \/ pc = "publish" /\ failures' # failures

C26_ProgressExact ==
    [][(passes' = passes /\ passes >= 1) =>
          /\ \A j \in DOMAIN progress : progress'[j] >= progress[j]
          /\ Handled => progress' = [progress EXCEPT ![ui] = @ + 1]
          /\ ~Handled => (progress' = progress \/ progress' = Append(progress, 0))
          /\ (pc = "visit" /\ (pc' = "done" \/ ui' # ui)) =>
                progress[ui] = Cardinality(Archives(subtrees[ui].tree))]_vars

(***************************************************************************)
(* C27: when the run ends with a configuration error (a minimum split      *)
(* depth that is not positive: ValueError; overlapping partition patterns: *)
(* the failed assertion), no tree work has been done: the source tree has  *)
(* not been built, nothing has been partitioned or chunked.                *)
(***************************************************************************)
C27_ConfigErrorsFirst ==
    (pc = "error" /\ err \in {"ValueError", "AssertionError"}) =>
        /\ file_tree = EmptyTree
        /\ parted = <<>>
        /\ found = <<>>

(***************************************************************************)
(* C28: for every entry of the configuration whose pattern is not the      *)
(* wildcard, the returned partition of its name holds exactly the source   *)
(* leaves that match its pattern (none: no such partition), whatever the   *)
(* names of the configuration are: creating the default partition          *)
(* "metadata" does not replace a configured entry.                         *)
(***************************************************************************)
C28_ConfiguredEntriesKept ==
    parted # <<>> =>
        \A i \in NonDefault :
            LeavesOfPartition(partitions_dict[i].name)
                = MatchingLeafs(file_tree, partitions_dict[i].pattern)

(***************************************************************************)
(* C29: split_into_chunks, given a partition tree with consistent sizes    *)
(* and no flag set, a chunk size of at least 1 and a minimum split depth   *)
(* of at least 1, returns: it raises none of its errors (missing files,    *)
(* empty archive, leaf outside the archives).                              *)
(***************************************************************************)
C29_ChunkingCompletes ==
    (pc = "error" /\ err = "RuntimeError" /\ parted # <<>>) =>
        DepthFor(partitions_dict, subtrees[ci].name, min_zip_depth) <= 0

(***************************************************************************)
(* C30: with overwrite off an archive is skipped only if the bucket holds  *)
(* an object with its key: an existence check that fails with an error     *)
(* other than not-found does not make the archive count as existing.       *)
(***************************************************************************)
C30_SkippedOnlyIfStored ==
    \A j \in DOMAIN log :
        log[j].event = "skipped" => log[j].key \in bucket

====
